---- MODULE Spec2Model ----
(***************************************************************************)
(* The job orchestration engine of the semantic-video daemon               *)
(* (internal/daemon): the in-memory registry of videos, jobs and           *)
(* cancellation channels behind Server.mu, the HTTP handlers that mutate   *)
(* it, and the background goroutine runJob with its extraction goroutine.  *)
(*                                                                         *)
(* Every critical section (s.mu.Lock() ... s.mu.Unlock()) is one atomic    *)
(* step, and so is every read or write of the frames directory made        *)
(* outside the lock.  A step of a goroutine that touches nothing another   *)
(* goroutine can see (a receive from its own errCh, the return of its own  *)
(* collaborator call, the observation that its cancel channel is closed,   *)
(* which stays true once true) is taken together with the critical section *)
(* that follows it: delaying such a step to that point changes no          *)
(* interleaving of the shared state.                                       *)
(***************************************************************************)
EXTENDS Integers, Sequences, FiniteSets, TLC

\* ------------------------------------------------------------- bounds ----
MaxVideos == 1     \* source paths registered through POST /videos
MaxJobs == 2       \* jobs created over a run (startJob is disabled beyond)
MaxFrames == 2     \* frames one extraction may write

\* The media tree on disk, as os.ReadDir lists it: the entries of a directory
\* in order of file name.  A directory is the sequence of its path elements, a
\* file name is split at its extension.
Media == <<"media">>
MediaSub == <<"media", "sub">>
File(base, ext) == [base |-> base, ext |-> ext, isDir |-> FALSE]
SubDir(base) == [base |-> base, ext |-> "", isDir |-> TRUE]
ReadDir(dir) ==
    CASE dir = Media -> <<File("a", ".mp4"), File("b", ".MOV"),
                          File("notes", ".txt"), SubDir("sub")>>
      [] dir = MediaSub -> <<File("a", ".mkv"), File("readme", ".md")>>
      [] OTHER -> <<>>
\* filepath.Join(dir, name) for a file and for a sub-directory.
JoinFile(dir, e) == [dir |-> dir, base |-> e.base, ext |-> e.ext]
JoinDir(dir, e) == Append(dir, e.base)

\* The video files of the tree; two of them share the base name "a".
VideoFiles == <<JoinFile(Media, File("a", ".mp4")),
                JoinFile(MediaSub, File("a", ".mkv")),
                JoinFile(Media, File("b", ".MOV"))>>
AllPaths == {VideoFiles[i] : i \in 1..Len(VideoFiles)}
\* The paths POST /videos is called with.
Paths == {VideoFiles[i] : i \in 1..MaxVideos}
\* The folders POST /folders is called with.
FolderPaths == {Media, MediaSub}
\* handleExtract / handleCancel take the id from the URL: any string.  Ids
\* 1..MaxVideos are the ones newID can have handed out; 0 is never handed out.
VideoIDs == 0..MaxVideos

\* ------------------------------------------------------------- state -----
VARIABLES
    videos,       \* s.videos: video id -> Video
    videoByPath,  \* s.videoByPath: path -> video id
    jobs,         \* s.jobs: job id -> Job
    jobCancel,    \* s.jobCancel: job id -> channel
    closed,       \* the channels on which close() has been called
    mu,           \* s.mu: "free", or "dead" once a handler panicked holding it
    task,         \* the runJob goroutine of each job: its position and locals
    extraction,   \* the extraction goroutine of each job and its errCh
    disk,         \* frames root: directory name -> frame files present
    cancelReturned,  \* history: videos for which cancelJob returned nil since
                     \* the last startJob for the video
    cancelledEarly,  \* history: jobs cancelled before their extraction call
                     \* returned
    folders,      \* s.folders: folder id -> Folder
    folderByPath, \* s.folderByPath: path -> folder id
    scan,         \* the scanFolderAndIndex goroutine of each folder
    registered,   \* history: the answers of the registration calls
    extractFailed, \* history: jobs whose extraction call returned an error
    started,      \* history: the startJob calls the folder scans made
    config,       \* s.config: the settings PUT /config writes
    cloud         \* s.cloud: the access token and the cloud status

hist == <<cancelReturned, cancelledEarly, registered, extractFailed, started>>
scanVars == <<folders, folderByPath, scan>>
vars == <<videos, videoByPath, jobs, jobCancel, closed, mu, task, extraction, disk,
          scanVars, hist, config, cloud>>

\* ------------------------------------------------------------ helpers ----
Put(f, k, v) == [x \in (DOMAIN f) \cup {k} |-> IF x = k THEN v ELSE f[x]]
Del(f, k) == [x \in (DOMAIN f) \ {k} |-> f[x]]

RECURSIVE GCD(_, _)
GCD(a, b) == IF b = 0 THEN a ELSE GCD(b, a % b)

\* float64(n) / float64(d) for d > 0, kept exact as a fraction in lowest terms.
Ratio(n, d) == LET g == GCD(n, d) IN IF n = 0 THEN <<0, 1>> ELSE <<n \div g, d \div g>>
Less(p, q) == p[1] * q[2] < q[1] * p[2]
Zero == <<0, 1>>
One == <<1, 1>>
\* math.Nextafter(1, 0): the largest float64 below 1.  Every ratio n/d < 1 of
\* two frame counts lies below it; the fraction keeps that order.
Nextafter10 == <<9999, 10000>>

\* newID(prefix): a fresh identifier; ids are handed out in order of creation.
newID(table) == Cardinality(DOMAIN table) + 1

\* framesDirForVideo: the base name of the path without its extension.
framesDirForVideo(videoPath) == videoPath.base

\* NewServer: the frame rate of the initial configuration.
FrameRate == 1
\* estimateFrames: ceil(DurationSeconds * s.config.FrameRate).
estimateFrames(video) == video.DurationSeconds * config.FrameRate

errNotFound == "not found"
\* fmt.Errorf("<prefix>: %w", err): the message of err behind the prefix.
Errorf(prefix, err) == prefix \o ": " \o err
\* The errors of the collaborators: os.MkdirAll, os.ReadDir, ffmpeg, UploadImage.
MkdirError == "mkdir: permission denied"
ReadDirError == "open: permission denied"
ExtractError == "ffmpeg: exit status 1"
UploadError == "upload failed"
nil == "nil"

\* The last-error messages of a failed file-system call on the frames root.
FsFaults == {Errorf("prepare frames root", MkdirError), Errorf("monitor frames", ReadDirError),
             Errorf("index frames", ReadDirError)}

IsActive(job) == job.Status = "running" \/ job.Status = "queued"
ActiveJobsOf(videoID) == {id \in DOMAIN jobs : jobs[id].VideoID = videoID /\ IsActive(jobs[id])}

\* ----------------------------------------------------------- handlers ----
\* handleVideos, POST: register a path (the path is validated non-blank first).
NewVideo(videoID, path) ==
    [ID |-> videoID, Path |-> path, DurationSeconds |-> 0,
     IndexStatus |-> "pending", FramesExtracted |-> 0,
     FramesUploaded |-> 0, TotalFramesExpected |-> 0,
     LastIndexedAt |-> nil, LastError |-> nil]

\* Mutant: POST /videos that registers without the lookup in videoByPath.
handleVideosPost_NoLookup(path) ==
    LET videoID == newID(videos)
    IN [video_id |-> videoID, status |-> "scheduled",
        videos |-> Put(videos, videoID, NewVideo(videoID, path)),
        videoByPath |-> Put(videoByPath, path, videoID)]

handleVideosPost(path) ==
    IF path \in DOMAIN videoByPath
    THEN [video_id |-> videoByPath[path], status |-> "already_exists",
          videos |-> videos, videoByPath |-> videoByPath]
    ELSE LET videoID == newID(videos)
         IN [video_id |-> videoID, status |-> "scheduled",
             videos |-> Put(videos, videoID, NewVideo(videoID, path)),
             videoByPath |-> Put(videoByPath, path, videoID)]

\* addVideoPath without the lookup in videoByPath.
addVideoPath_NoLookup(path) ==
    LET videoID == newID(videos)
    IN [id |-> videoID, exists |-> FALSE,
        videos |-> Put(videos, videoID, NewVideo(videoID, path)),
        videoByPath |-> Put(videoByPath, path, videoID)]

\* addVideoPath: the registration the folder scanner makes for each file.
\* Mutant: addVideoPath that stores a new asset and leaves the path index
\* as it is.
addVideoPath_SkipsIndex(path) ==
    IF path \in DOMAIN videoByPath
    THEN [id |-> videoByPath[path], exists |-> TRUE,
          videos |-> videos, videoByPath |-> videoByPath]
    ELSE LET videoID == newID(videos)
         IN [id |-> videoID, exists |-> FALSE,
             videos |-> Put(videos, videoID, NewVideo(videoID, path)),
             videoByPath |-> videoByPath]

addVideoPath(path) ==
    IF path \in DOMAIN videoByPath
    THEN [id |-> videoByPath[path], exists |-> TRUE,
          videos |-> videos, videoByPath |-> videoByPath]
    ELSE LET videoID == newID(videos)
         IN [id |-> videoID, exists |-> FALSE,
             videos |-> Put(videos, videoID, NewVideo(videoID, path)),
             videoByPath |-> Put(videoByPath, path, videoID)]

\* Mutant: POST /folders that answers a tracked path by scanning it again.
handleFoldersPost_Rescans(path, recursive) ==
    IF path \in DOMAIN folderByPath
    THEN [folder_id |-> folders[folderByPath[path]].ID, status |-> "scanning",
          folders |-> [folders EXCEPT ![folderByPath[path]].Status = "scanning"],
          folderByPath |-> folderByPath]
    ELSE LET folderID == newID(folders)
             folder == [ID |-> folderID, Path |-> path, Recursive |-> recursive,
                        Status |-> "scanning"]
         IN [folder_id |-> folderID, status |-> "scanning",
             folders |-> Put(folders, folderID, folder),
             folderByPath |-> Put(folderByPath, path, folderID)]

\* POST /folders: the critical section; a new folder starts its scan.
handleFoldersPost(path, recursive) ==
    IF path \in DOMAIN folderByPath
    THEN [folder_id |-> folders[folderByPath[path]].ID, status |-> "already_exists",
          folders |-> folders, folderByPath |-> folderByPath]
    ELSE LET folderID == newID(folders)
             folder == [ID |-> folderID, Path |-> path, Recursive |-> recursive,
                        Status |-> "scanning"]
         IN [folder_id |-> folderID, status |-> "scanning",
             folders |-> Put(folders, folderID, folder),
             folderByPath |-> Put(folderByPath, path, folderID)]

\* strings.ToLower on the extensions of the tree.
ToLower(ext) == IF ext = ".MOV" THEN ".mov" ELSE ext
\* Mutant: isVideoFileName that compares the extension as it is spelled.
isVideoFileName_CaseSensitive(e) ==
    e.ext \in {".mp4", ".mov", ".mkv", ".avi", ".m4v", ".webm"}

isVideoFileName(e) ==
    ToLower(e.ext) \in {".mp4", ".mov", ".mkv", ".avi", ".m4v", ".webm"}

\* collectVideoPaths: the files of root with a video extension, in the order
\* of the listing; with recursive, filepath.WalkDir descends into each
\* sub-directory where the listing has it.
RECURSIVE WalkDir(_, _, _)
WalkDir(dir, k, recursive) ==
    IF k > Len(ReadDir(dir)) THEN <<>>
    ELSE LET e == ReadDir(dir)[k]
             here == IF e.isDir
                     THEN IF recursive THEN WalkDir(JoinDir(dir, e), 1, recursive)
                          ELSE <<>>
                     ELSE IF isVideoFileName(e) THEN <<JoinFile(dir, e)>> ELSE <<>>
         IN here \o WalkDir(dir, k + 1, recursive)
collectVideoPaths(root, recursive) == WalkDir(root, 1, recursive)

\* Mutant: startJob that resets the counters only when reindex is set.
startJob_ResetOnReindex(videoID, reindex) ==
    IF videoID \notin DOMAIN videos
    THEN [err |-> errNotFound, job |-> 0, videos |-> videos, jobs |-> jobs,
          jobCancel |-> jobCancel]
    ELSE LET video == IF reindex
                      THEN [videos[videoID] EXCEPT !.FramesExtracted = 0,
                                                   !.FramesUploaded = 0,
                                                   !.TotalFramesExpected = 0,
                                                   !.IndexStatus = "extracting",
                                                   !.LastError = nil]
                      ELSE [videos[videoID] EXCEPT !.IndexStatus = "extracting",
                                                   !.LastError = nil]
             jobID == newID(jobs)
             job == [ID |-> jobID, VideoID |-> videoID, Type |-> "extract_and_upload",
                     Status |-> "queued", Progress |-> Zero]
         IN [err |-> nil, job |-> jobID,
             videos |-> [videos EXCEPT ![videoID] = video],
             jobs |-> Put(jobs, jobID, job),
             jobCancel |-> Put(jobCancel, jobID, jobID)]

\* Mutant: startJob that creates the job and its channel before it looks the
\* video up.
startJob_CreatesJobFirst(videoID, reindex) ==
    LET jobID == newID(jobs)
        job == [ID |-> jobID, VideoID |-> videoID, Type |-> "extract_and_upload",
                Status |-> "queued", Progress |-> Zero]
    IN IF videoID \notin DOMAIN videos
       THEN [err |-> errNotFound, job |-> 0, videos |-> videos,
             jobs |-> Put(jobs, jobID, job),
             jobCancel |-> Put(jobCancel, jobID, jobID)]
       ELSE [err |-> nil, job |-> jobID,
             videos |-> [videos EXCEPT ![videoID] =
                           [@ EXCEPT !.FramesExtracted = 0,
                                     !.FramesUploaded = 0,
                                     !.TotalFramesExpected = 0,
                                     !.IndexStatus = "extracting",
                                     !.LastError = nil]],
             jobs |-> Put(jobs, jobID, job),
             jobCancel |-> Put(jobCancel, jobID, jobID)]

\* startJob: the critical section; the caller then runs `go s.runJob(...)`.
startJob(videoID, reindex) ==
    IF videoID \notin DOMAIN videos
    THEN [err |-> errNotFound, job |-> 0, videos |-> videos, jobs |-> jobs,
          jobCancel |-> jobCancel]
    ELSE LET v0 == IF reindex
                   THEN [videos[videoID] EXCEPT !.FramesExtracted = 0,
                                                !.FramesUploaded = 0,
                                                !.TotalFramesExpected = 0,
                                                !.IndexStatus = "pending",
                                                !.LastError = nil]
                   ELSE videos[videoID]
             video == [v0 EXCEPT !.FramesExtracted = 0,
                                 !.FramesUploaded = 0,
                                 !.TotalFramesExpected = 0,
                                 !.IndexStatus = "extracting",
                                 !.LastError = nil]
             jobID == newID(jobs)
             job == [ID |-> jobID, VideoID |-> videoID, Type |-> "extract_and_upload",
                     Status |-> "queued", Progress |-> Zero]
         IN [err |-> nil, job |-> jobID,
             videos |-> [videos EXCEPT ![videoID] = video],
             jobs |-> Put(jobs, jobID, job),
             jobCancel |-> Put(jobCancel, jobID, jobID)]

\* handleExtract: the response for what startJob returned.
handleExtract(videoID, reindex) ==
    IF startJob(videoID, reindex).err = errNotFound
    THEN [code |-> 404, body |-> "video not found"]
    ELSE [code |-> 200, body |-> "started"]

\* Mutant: cancelJob that marks the job and the video but leaves the channel in
\* s.jobCancel.
cancelJob_KeepsHandle(videoID, jobID) ==
    IF jobID = 0
    THEN [err |-> errNotFound, videos |-> videos, jobs |-> jobs,
          jobCancel |-> jobCancel, closed |-> closed, mu |-> "free"]
    ELSE IF jobID \notin DOMAIN jobCancel \/ jobCancel[jobID] \in closed
    THEN [err |-> "panic", videos |-> videos, jobs |-> jobs,
          jobCancel |-> jobCancel, closed |-> closed, mu |-> "dead"]
    ELSE [err |-> nil,
          videos |-> [videos EXCEPT ![videoID].IndexStatus = "failed",
                                    ![videoID].LastError = "cancelled"],
          jobs |-> [jobs EXCEPT ![jobID].Status = "failed"],
          jobCancel |-> jobCancel,
          closed |-> closed \cup {jobCancel[jobID]},
          mu |-> "free"]

\* Mutant: cancelJob that marks the video failed before it looks for a job.
cancelJob_MarksVideoFirst(videoID, jobID) ==
    LET marked == IF videoID \in DOMAIN videos
                  THEN [videos EXCEPT ![videoID].IndexStatus = "failed",
                                      ![videoID].LastError = "cancelled"]
                  ELSE videos
    IN IF jobID = 0
       THEN [err |-> errNotFound, videos |-> marked, jobs |-> jobs,
             jobCancel |-> jobCancel, closed |-> closed, mu |-> "free"]
       ELSE IF jobID \notin DOMAIN jobCancel \/ jobCancel[jobID] \in closed
       THEN [err |-> "panic", videos |-> videos, jobs |-> jobs,
             jobCancel |-> jobCancel, closed |-> closed, mu |-> "dead"]
       ELSE [err |-> nil, videos |-> marked,
             jobs |-> [jobs EXCEPT ![jobID].Status = "failed"],
             jobCancel |-> Del(jobCancel, jobID),
             closed |-> closed \cup {jobCancel[jobID]},
             mu |-> "free"]

\* cancelJob with the job the map iteration finds first (jobID = 0: none).
\* close(cancelCh) panics on a nil channel (no entry in s.jobCancel) and on a
\* closed one; the panic leaves s.mu locked, nothing after it runs.
cancelJob(videoID, jobID) ==
    IF jobID = 0
    THEN [err |-> errNotFound, videos |-> videos, jobs |-> jobs,
          jobCancel |-> jobCancel, closed |-> closed, mu |-> "free"]
    ELSE IF jobID \notin DOMAIN jobCancel \/ jobCancel[jobID] \in closed
    THEN [err |-> "panic", videos |-> videos, jobs |-> jobs,
          jobCancel |-> jobCancel, closed |-> closed, mu |-> "dead"]
    ELSE [err |-> nil,
          videos |-> IF videoID \in DOMAIN videos
                     THEN [videos EXCEPT ![videoID].IndexStatus = "failed",
                                         ![videoID].LastError = "cancelled"]
                     ELSE videos,
          jobs |-> [jobs EXCEPT ![jobID].Status = "failed"],
          jobCancel |-> Del(jobCancel, jobID),
          closed |-> closed \cup {jobCancel[jobID]},
          mu |-> "free"]

\* The jobs the loop `for id, job := range s.jobs` can stop at.
cancelCandidates(videoID) ==
    IF ActiveJobsOf(videoID) = {} THEN {0} ELSE ActiveJobsOf(videoID)

\* ---------------------------------------------------- critical sections --
\* Mutant: updateProgressLocked without the clamp below 1.
updateProgressLocked_NoClamp(video, job, clamp) ==
    LET fix == video.TotalFramesExpected <= 0
        expected == IF fix
                    THEN (IF video.FramesUploaded <= 0 THEN 1 ELSE video.FramesUploaded)
                    ELSE video.TotalFramesExpected
        v2 == IF fix THEN [video EXCEPT !.TotalFramesExpected = expected] ELSE video
        progress == Ratio(video.FramesUploaded, expected)
    IN [video |-> v2,
        job |-> IF Less(job.Progress, progress) THEN [job EXCEPT !.Progress = progress]
                ELSE job]

\* Mutant: updateProgressLocked that stores the new ratio even when it is lower.
updateProgressLocked_Overwrites(video, job, clamp) ==
    LET fix == video.TotalFramesExpected <= 0
        expected == IF fix
                    THEN (IF video.FramesUploaded <= 0 THEN 1 ELSE video.FramesUploaded)
                    ELSE video.TotalFramesExpected
        v2 == IF fix THEN [video EXCEPT !.TotalFramesExpected = expected] ELSE video
        raw == Ratio(video.FramesUploaded, expected)
        progress == IF clamp /\ ~Less(raw, One) /\ job.Status # "done"
                    THEN Nextafter10 ELSE raw
    IN [video |-> v2, job |-> [job EXCEPT !.Progress = progress]]

updateProgressLocked(video, job, clamp) ==
    LET fix == video.TotalFramesExpected <= 0
        expected == IF fix
                    THEN (IF video.FramesUploaded <= 0 THEN 1 ELSE video.FramesUploaded)
                    ELSE video.TotalFramesExpected
        v2 == IF fix THEN [video EXCEPT !.TotalFramesExpected = expected] ELSE video
        raw == Ratio(video.FramesUploaded, expected)
        progress == IF clamp /\ ~Less(raw, One) /\ job.Status # "done"
                    THEN Nextafter10 ELSE raw
    IN [video |-> v2,
        job |-> IF Less(job.Progress, progress) THEN [job EXCEPT !.Progress = progress]
                ELSE job]

\* runJob, lines 227-258.
runJobBegin(jobID) ==
    LET job == jobs[jobID]
        video == videos[job.VideoID]
        e0 == IF video.TotalFramesExpected = 0 THEN estimateFrames(video)
              ELSE video.TotalFramesExpected
        expected == IF e0 <= 0 THEN 1 ELSE e0
    IN [videos |-> [videos EXCEPT ![job.VideoID] =
                       [video EXCEPT !.TotalFramesExpected = expected,
                                     !.IndexStatus = "extracting",
                                     !.LastError = nil]],
        jobs |-> [jobs EXCEPT ![jobID].Status = "running", ![jobID].Progress = Zero],
        cfg |-> [FrameRate |-> config.FrameRate]]

\* Mutant: refreshJobProgress that raises frames-extracted and leaves
\* total-frames-expected as it is.
refreshJobProgress_KeepsTotal(jobID, frames) ==
    LET job == jobs[jobID]
        video == videos[job.VideoID]
        v1 == [video EXCEPT
                 !.FramesExtracted = IF frames > @ THEN frames ELSE @]
        up == updateProgressLocked(v1, job, TRUE)
    IN [videos |-> [videos EXCEPT ![job.VideoID] =
                       [up.video EXCEPT !.IndexStatus = "extracting"]],
        jobs |-> [jobs EXCEPT ![jobID] = up.job]]

refreshJobProgress(jobID, frames) ==
    LET job == jobs[jobID]
        video == videos[job.VideoID]
        v1 == [video EXCEPT
                 !.FramesExtracted = IF frames > @ THEN frames ELSE @,
                 !.TotalFramesExpected = IF frames > @ THEN frames ELSE @]
        up == updateProgressLocked(v1, job, TRUE)
    IN [videos |-> [videos EXCEPT ![job.VideoID] =
                       [up.video EXCEPT !.IndexStatus = "extracting"]],
        jobs |-> [jobs EXCEPT ![jobID] = up.job]]

\* indexFrames, lines 352-360.
indexFramesBegin(jobID, n) ==
    LET job == jobs[jobID]
        video == videos[job.VideoID]
        v1 == [video EXCEPT !.IndexStatus = "indexing", !.FramesUploaded = 0,
                            !.FramesExtracted = n, !.TotalFramesExpected = n]
        up == updateProgressLocked(v1, job, TRUE)
    IN [videos |-> [videos EXCEPT ![job.VideoID] = up.video],
        jobs |-> [jobs EXCEPT ![jobID] = up.job]]

markFrameUploaded(jobID, uploaded, total) ==
    LET job == jobs[jobID]
        video == videos[job.VideoID]
        v1 == [video EXCEPT
                 !.FramesUploaded = IF uploaded > @ THEN uploaded ELSE @,
                 !.TotalFramesExpected = IF total > @ THEN total ELSE @,
                 !.FramesExtracted = IF @ < total THEN total ELSE @]
        up == updateProgressLocked(v1, job, TRUE)
    IN [videos |-> [videos EXCEPT ![job.VideoID] =
                       [up.video EXCEPT !.IndexStatus = "indexing"]],
        jobs |-> [jobs EXCEPT ![jobID] = up.job]]

\* Mutant: completeJob that removes the finished job from the job table.
completeJob_ForgetsJob(jobID) ==
    LET job == jobs[jobID]
        video == videos[job.VideoID]
    IN [videos |-> [videos EXCEPT ![job.VideoID].IndexStatus = "indexed",
                                  ![job.VideoID].LastIndexedAt = "now"],
        jobs |-> Del(jobs, jobID),
        cloud |-> cloud]

completeJob(jobID) ==
    LET job == jobs[jobID]
        video == videos[job.VideoID]
        v1 == [video EXCEPT
                 !.FramesExtracted = IF @ < video.FramesUploaded
                                     THEN video.FramesUploaded ELSE @,
                 !.TotalFramesExpected = IF @ < video.FramesUploaded
                                         THEN video.FramesUploaded ELSE @,
                 !.IndexStatus = "indexed",
                 !.LastError = nil,
                 !.LastIndexedAt = "now"]
    IN [videos |-> [videos EXCEPT ![job.VideoID] = v1],
        jobs |-> [jobs EXCEPT ![jobID].Status = "done", ![jobID].Progress = One],
        cloud |-> [cloud EXCEPT !.Status.Connected = (cloud.AccessToken # ""),
                                !.Status.PendingBatches = 0,
                                !.Status.LastSuccessfulUpload = "now"]]

\* Mutant: failJob that marks the job and forgets the video.
failJob_JobOnly(jobID, msg) ==
    [videos |-> videos,
     jobs |-> [jobs EXCEPT ![jobID].Status = "failed", ![jobID].Progress = Zero]]

failJob(jobID, msg) ==
    LET job == jobs[jobID]
    IN [videos |-> [videos EXCEPT ![job.VideoID].IndexStatus = "failed",
                                  ![job.VideoID].LastError = msg],
        jobs |-> [jobs EXCEPT ![jobID].Status = "failed", ![jobID].Progress = Zero]]

markJobCancelled(jobID) ==
    LET job == jobs[jobID]
    IN [videos |-> [videos EXCEPT ![job.VideoID].IndexStatus = "failed",
                                  ![job.VideoID].LastError = "cancelled"],
        jobs |-> [jobs EXCEPT ![jobID].Status = "failed", ![jobID].Progress = Zero]]

\* listFrameFiles: the frame files of a directory, sorted by name (a missing
\* directory lists as empty).  frame_%05d.jpg sorts by frame number.
RECURSIVE SortedSeq(_)
SortedSeq(S) ==
    IF S = {} THEN <<>>
    ELSE LET m == CHOOSE x \in S : \A y \in S : x <= y
         IN <<m>> \o SortedSeq(S \ {m})
listFrameFiles(dir) == SortedSeq(disk[dir])
countExtractedFrames(dir) == Len(listFrameFiles(dir))

\* ------------------------------------------------------------- Init ------
Dirs == {framesDirForVideo(p) : p \in AllPaths}

Init ==
    /\ videos = <<>>
    /\ videoByPath = <<>>
    /\ jobs = <<>>
    /\ jobCancel = <<>>
    /\ closed = {}
    /\ mu = "free"
    /\ task = <<>>
    /\ extraction = <<>>
    /\ disk = [d \in Dirs |-> {}]
    /\ cancelReturned = {}
    /\ cancelledEarly = {}
    /\ folders = <<>>
    /\ folderByPath = <<>>
    /\ scan = <<>>
    /\ registered = {}
    /\ extractFailed = {}
    /\ started = {}
    /\ config = [FrameRate |-> FrameRate, CloudAuthStatus |-> "missing_token"]
    /\ cloud = [AccessToken |-> "",
                Status |-> [Connected |-> FALSE, LastSuccessfulUpload |-> nil,
                            PendingBatches |-> 0]]

\* ---------------------------------------------------------- actions ------
\* POST /videos
HandleVideosPost(path) ==
    /\ mu = "free"
    /\ LET out == handleVideosPost(path)
       IN /\ videos' = out.videos
          /\ videoByPath' = out.videoByPath
    /\ UNCHANGED <<config, cloud, jobs, jobCancel, closed, mu, task, extraction, disk, scanVars>>

\* The locals of a runJob goroutine; cfg is the extraction configuration (the
\* zero Config until the first critical section fills it) and req is the
\* request of the UploadImage call in flight.
NewTask == [pc |-> "start", msg |-> nil, frames |-> 0, framePaths |-> <<>>, i |-> 0,
            req |-> nil, cfg |-> [FrameRate |-> 0]]
NoExtraction == [st |-> "none", written |-> 0, errCh |-> "empty"]

\* startJob followed by `go s.runJob(jobID, videoID, cancelCh)`.
StartJob(videoID, reindex) ==
    LET out == startJob(videoID, reindex)
    IN /\ videos' = out.videos
       /\ jobs' = out.jobs
       /\ jobCancel' = out.jobCancel
       /\ task' = IF out.err = nil THEN Put(task, out.job, NewTask) ELSE task
       /\ extraction' = IF out.err = nil THEN Put(extraction, out.job, NoExtraction)
                        ELSE extraction

\* POST /videos/{id}/extract
HandleExtract(videoID, reindex) ==
    /\ mu = "free"
    /\ Cardinality(DOMAIN jobs) < MaxJobs
    /\ StartJob(videoID, reindex)
    /\ UNCHANGED <<config, cloud, videoByPath, closed, mu, disk, scanVars>>

\* POST /videos/{id}/cancel
HandleCancel(videoID, jobID) ==
    /\ mu = "free"
    /\ jobID \in cancelCandidates(videoID)
    /\ LET out == cancelJob(videoID, jobID)
       IN /\ videos' = out.videos
          /\ jobs' = out.jobs
          /\ jobCancel' = out.jobCancel
          /\ closed' = out.closed
          /\ mu' = out.mu
    /\ UNCHANGED <<config, cloud, videoByPath, task, extraction, disk, scanVars>>

\* The history variables, kept beside the two handlers in SpecHist.
NoteExtract(videoID) ==
    /\ cancelReturned' = IF startJob(videoID, FALSE).err = nil
                         THEN cancelReturned \ {videoID} ELSE cancelReturned
    /\ UNCHANGED <<cancelledEarly, registered, extractFailed, started>>

NoteCancel(videoID, jobID) ==
    LET ok == cancelJob(videoID, jobID).err = nil
    IN /\ cancelReturned' = IF ok THEN cancelReturned \cup {videoID} ELSE cancelReturned
       /\ cancelledEarly' = IF ok /\ extraction[jobID].st # "returned"
                            THEN cancelledEarly \cup {jobID} ELSE cancelledEarly
       /\ UNCHANGED <<registered, extractFailed, started>>

\* The history of the extraction calls: which ones returned an error.
NoteBackground(jobID) ==
    /\ extractFailed' = IF /\ extraction[jobID].st = "running"
                           /\ extraction'[jobID].st = "returned"
                           /\ extraction'[jobID].errCh # nil
                        THEN extractFailed \cup {jobID} ELSE extractFailed
    /\ UNCHANGED <<cancelReturned, cancelledEarly, registered, started>>

SetTask(jobID, t) == task' = [task EXCEPT ![jobID] = t]
Goto(jobID, pc) == SetTask(jobID, [task[jobID] EXCEPT !.pc = pc])
Locked(out) == videos' = out.videos /\ jobs' = out.jobs

\* runJob: the first critical section.
RunJobBegin(jobID) ==
    /\ task[jobID].pc = "start"
    /\ mu = "free"
    /\ LET out == runJobBegin(jobID)
       IN /\ Locked(out)
          /\ SetTask(jobID, [task[jobID] EXCEPT !.pc = "prepare", !.cfg = out.cfg])
    /\ UNCHANGED <<config, cloud, videoByPath, jobCancel, closed, mu, extraction, disk, scanVars>>

\* runJob, lines 260-272: MkdirAll, RemoveAll(framesDir), the extraction
\* goroutine and the ticker.
RunJobPrepare(jobID) ==
    /\ task[jobID].pc = "prepare"
    /\ disk' = [disk EXCEPT ![framesDirForVideo(videos[jobs[jobID].VideoID].Path)] = {}]
    /\ extraction' = [extraction EXCEPT ![jobID].st = "running"]
    /\ Goto(jobID, "select")
    /\ UNCHANGED <<config, cloud, videos, videoByPath, jobs, jobCancel, closed, mu, scanVars>>

\* runJob, lines 260-263: MkdirAll fails and failJob runs.
RunJobPrepareFails(jobID) ==
    /\ task[jobID].pc = "prepare"
    /\ mu = "free"
    /\ Locked(failJob(jobID, Errorf("prepare frames root", MkdirError)))
    /\ Goto(jobID, "defer")
    /\ UNCHANGED <<config, cloud, videoByPath, jobCancel, closed, mu, extraction, disk, scanVars>>

\* The extraction goroutine: ffmpeg writes frame_00001.jpg, frame_00002.jpg, ...
\* into the directory derived from the input's base name.
ExtractWriteFrame(jobID) ==
    /\ extraction[jobID].st = "running"
    /\ extraction[jobID].written < MaxFrames
    /\ LET dir == framesDirForVideo(videos[jobs[jobID].VideoID].Path)
           k == extraction[jobID].written + 1
       IN /\ disk' = [disk EXCEPT ![dir] = @ \cup {k}]
          /\ extraction' = [extraction EXCEPT ![jobID].written = k]
    /\ UNCHANGED <<config, cloud, videos, videoByPath, jobs, jobCancel, closed, mu, task, scanVars>>

\* ExtractFramesForVideo returns; its result goes to errCh (capacity 1).
ExtractReturn(jobID, err) ==
    /\ extraction[jobID].st = "running"
    /\ extraction' = [extraction EXCEPT ![jobID].st = "returned", ![jobID].errCh = err]
    /\ UNCHANGED <<config, cloud, videos, videoByPath, jobs, jobCancel, closed, mu, task, disk, scanVars>>

Fail(jobID, msg) == SetTask(jobID, [task[jobID] EXCEPT !.pc = "fail", !.msg = msg])

\* select, case <-cancelCh (ready once the job's channel is closed), and
\* markJobCancelled.
SelectCancel(jobID) ==
    /\ task[jobID].pc = "select"
    /\ jobID \in closed
    /\ mu = "free"
    /\ Locked(markJobCancelled(jobID))
    /\ Goto(jobID, "defer")
    /\ UNCHANGED <<config, cloud, videoByPath, jobCancel, closed, mu, extraction, disk, scanVars>>

\* select, case err := <-errCh with err != nil, and failJob.
SelectErrChError(jobID) ==
    /\ task[jobID].pc = "select"
    /\ extraction[jobID].errCh \notin {"empty", nil}
    /\ mu = "free"
    /\ extraction' = [extraction EXCEPT ![jobID].errCh = "empty"]
    /\ Locked(failJob(jobID, Errorf("extract frames", extraction[jobID].errCh)))
    /\ Goto(jobID, "defer")
    /\ UNCHANGED <<config, cloud, videoByPath, jobCancel, closed, mu, disk, scanVars>>

\* select, case err := <-errCh with err == nil: indexFrames starts with
\* listFrameFiles; with no frame file it returns an error.
SelectErrChNil(jobID) ==
    /\ task[jobID].pc = "select"
    /\ extraction[jobID].errCh = nil
    /\ extraction' = [extraction EXCEPT ![jobID].errCh = "empty"]
    /\ LET framePaths == listFrameFiles(framesDirForVideo(videos[jobs[jobID].VideoID].Path))
       IN IF Len(framePaths) = 0
          THEN Fail(jobID, Errorf("index frames", "no frames extracted"))
          ELSE SetTask(jobID, [task[jobID] EXCEPT !.pc = "index", !.framePaths = framePaths])
    /\ UNCHANGED <<config, cloud, videos, videoByPath, jobs, jobCancel, closed, mu, disk, scanVars>>

\* As SelectErrChNil, but os.ReadDir fails in listFrameFiles; failJob runs.
SelectErrChNilReadFails(jobID) ==
    /\ task[jobID].pc = "select"
    /\ extraction[jobID].errCh = nil
    /\ mu = "free"
    /\ extraction' = [extraction EXCEPT ![jobID].errCh = "empty"]
    /\ Locked(failJob(jobID, Errorf("index frames", ReadDirError)))
    /\ Goto(jobID, "defer")
    /\ UNCHANGED <<config, cloud, videoByPath, jobCancel, closed, mu, disk, scanVars>>

\* select, case <-ticker.C: refreshJobProgress first counts the frame files.
Tick(jobID) ==
    /\ task[jobID].pc = "select"
    /\ SetTask(jobID, [task[jobID] EXCEPT !.pc = "refresh",
          !.frames = countExtractedFrames(
                         framesDirForVideo(videos[jobs[jobID].VideoID].Path))])
    /\ UNCHANGED <<config, cloud, videos, videoByPath, jobs, jobCancel, closed, mu, extraction, disk, scanVars>>

\* select, case <-ticker.C, os.ReadDir fails in countExtractedFrames; failJob.
TickReadFails(jobID) ==
    /\ task[jobID].pc = "select"
    /\ mu = "free"
    /\ Locked(failJob(jobID, Errorf("monitor frames", ReadDirError)))
    /\ Goto(jobID, "defer")
    /\ UNCHANGED <<config, cloud, videoByPath, jobCancel, closed, mu, extraction, disk, scanVars>>

\* refreshJobProgress: the critical section.
RefreshJobProgress(jobID) ==
    /\ task[jobID].pc = "refresh"
    /\ mu = "free"
    /\ Locked(refreshJobProgress(jobID, task[jobID].frames))
    /\ SetTask(jobID, [task[jobID] EXCEPT !.pc = "select", !.frames = 0])
    /\ UNCHANGED <<config, cloud, videoByPath, jobCancel, closed, mu, extraction, disk, scanVars>>

\* indexFrames: the critical section before the upload loop.
IndexFramesBegin(jobID) ==
    /\ task[jobID].pc = "index"
    /\ mu = "free"
    /\ Locked(indexFramesBegin(jobID, Len(task[jobID].framePaths)))
    /\ SetTask(jobID, [task[jobID] EXCEPT !.pc = "loop", !.i = 0])
    /\ UNCHANGED <<config, cloud, videoByPath, jobCancel, closed, mu, extraction, disk, scanVars>>

\* The request of iteration i (0-based) of the upload loop: frameNumber is
\* i + 1, timestamp is float64(frameNumber-1) / s.config.FrameRate and the
\* frame rate is s.config.FrameRate, both read as the request is built.
UploadImageRequest(framePaths, i) ==
    [FilePath |-> framePaths[i + 1], FrameNumber |-> i + 1,
     Timestamp |-> Ratio((i + 1) - 1, config.FrameRate),
     FrameRate |-> config.FrameRate]

\* The non-blocking check of cancelCh at the top of an iteration passes and
\* UploadImage is called for frame i+1.
LoopUpload(jobID) ==
    /\ task[jobID].pc = "loop"
    /\ jobID \notin closed
    /\ SetTask(jobID, [task[jobID] EXCEPT !.pc = "upload",
          !.req = UploadImageRequest(task[jobID].framePaths, task[jobID].i)])
    /\ UNCHANGED <<config, cloud, videos, videoByPath, jobs, jobCancel, closed, mu, extraction, disk, scanVars>>

\* The check finds cancelCh closed: indexFrames returns context.Canceled and
\* runJob calls markJobCancelled.
LoopCancel(jobID) ==
    /\ task[jobID].pc = "loop"
    /\ jobID \in closed
    /\ mu = "free"
    /\ Locked(markJobCancelled(jobID))
    /\ Goto(jobID, "defer")
    /\ UNCHANGED <<config, cloud, videoByPath, jobCancel, closed, mu, extraction, disk, scanVars>>

\* UploadImage returns an error; failJob.
UploadFails(jobID) ==
    /\ task[jobID].pc = "upload"
    /\ mu = "free"
    /\ Locked(failJob(jobID, Errorf("index frames", UploadError)))
    /\ SetTask(jobID, [task[jobID] EXCEPT !.pc = "defer", !.req = nil])
    /\ UNCHANGED <<config, cloud, videoByPath, jobCancel, closed, mu, extraction, disk, scanVars>>

\* UploadImage returns an id; markFrameUploaded(jobID, i+1, len(framePaths)).
\* After the last frame the loop ends and indexFrames returns nil.
UploadOK(jobID) ==
    /\ task[jobID].pc = "upload"
    /\ mu = "free"
    /\ LET n == Len(task[jobID].framePaths)
           i == task[jobID].i
       IN /\ Locked(markFrameUploaded(jobID, i + 1, n))
          /\ SetTask(jobID, [task[jobID] EXCEPT !.i = i + 1, !.req = nil,
                                !.pc = IF i + 1 = n THEN "complete" ELSE "loop"])
    /\ UNCHANGED <<config, cloud, videoByPath, jobCancel, closed, mu, extraction, disk, scanVars>>

CompleteJob(jobID) ==
    /\ task[jobID].pc = "complete"
    /\ mu = "free"
    /\ LET out == completeJob(jobID)
       IN Locked(out) /\ cloud' = out.cloud
    /\ Goto(jobID, "defer")
    /\ UNCHANGED <<config, videoByPath, jobCancel, closed, mu, extraction, disk, scanVars>>

FailJob(jobID) ==
    /\ task[jobID].pc = "fail"
    /\ mu = "free"
    /\ Locked(failJob(jobID, task[jobID].msg))
    /\ SetTask(jobID, [task[jobID] EXCEPT !.pc = "defer", !.msg = nil])
    /\ UNCHANGED <<config, cloud, videoByPath, jobCancel, closed, mu, extraction, disk, scanVars>>

\* runJob's deferred function: delete(s.jobCancel, jobID) under the lock.
\* Mutant: a deferred function that returns without deleting the handle.
RunJobDefer_KeepsHandle(jobID) ==
    /\ task[jobID].pc = "defer"
    /\ mu = "free"
    /\ Goto(jobID, "returned")
    /\ UNCHANGED <<config, cloud, videos, videoByPath, jobs, jobCancel, closed, mu,
                   extraction, disk, scanVars>>

RunJobDefer(jobID) ==
    /\ task[jobID].pc = "defer"
    /\ mu = "free"
    /\ jobCancel' = Del(jobCancel, jobID)
    /\ Goto(jobID, "returned")
    /\ UNCHANGED <<config, cloud, videos, videoByPath, jobs, closed, mu, extraction, disk, scanVars>>

\* The steps of job jobID's goroutines.
Background(jobID) ==
    \/ RunJobBegin(jobID)
    \/ RunJobPrepare(jobID)
    \/ RunJobPrepareFails(jobID)
    \/ ExtractWriteFrame(jobID)
    \/ \E err \in {nil, ExtractError} : ExtractReturn(jobID, err)
    \/ SelectCancel(jobID)
    \/ SelectErrChError(jobID)
    \/ SelectErrChNil(jobID)
    \/ SelectErrChNilReadFails(jobID)
    \/ Tick(jobID)
    \/ TickReadFails(jobID)
    \/ RefreshJobProgress(jobID)
    \/ IndexFramesBegin(jobID)
    \/ LoopUpload(jobID)
    \/ LoopCancel(jobID)
    \/ UploadFails(jobID)
    \/ UploadOK(jobID)
    \/ CompleteJob(jobID)
    \/ FailJob(jobID)
    \/ RunJobDefer(jobID)

\* The job lifecycle: registration, startJob, cancelJob and the goroutines.
Next ==
    \/ \E p \in Paths : HandleVideosPost(p) /\ UNCHANGED hist
    \/ \E v \in VideoIDs, r \in BOOLEAN : HandleExtract(v, r) /\ UNCHANGED hist
    \/ \E v \in VideoIDs, j \in {0} \cup DOMAIN jobs : HandleCancel(v, j) /\ UNCHANGED hist
    \/ \E j \in DOMAIN task : Background(j) /\ UNCHANGED hist

Spec == Init /\ [][Next]_vars

\* The same with the history variables recorded.
NextHist ==
    \/ \E p \in Paths : HandleVideosPost(p) /\ UNCHANGED hist
    \/ \E v \in VideoIDs, r \in BOOLEAN : HandleExtract(v, r) /\ NoteExtract(v)
    \/ \E v \in VideoIDs, j \in {0} \cup DOMAIN jobs : HandleCancel(v, j) /\ NoteCancel(v, j)
    \/ \E j \in DOMAIN task : Background(j) /\ NoteBackground(j)

SpecHist == Init /\ [][NextHist]_vars

\* Two assets whose source files share the base name "a", each started at
\* most once (Spec has the repeated starts), with an extraction that returns
\* before the one-second ticker of runJob fires.
PairPaths == {VideoFiles[1], VideoFiles[2]}
PairIDs == 0..Cardinality(PairPaths)
NextPair ==
    \/ \E p \in PairPaths : HandleVideosPost(p) /\ UNCHANGED hist
    \/ \E v \in PairIDs, r \in BOOLEAN :
          /\ \A k \in DOMAIN jobs : jobs[k].VideoID # v
          /\ HandleExtract(v, r) /\ UNCHANGED hist
    \/ \E v \in PairIDs, j \in {0} \cup DOMAIN jobs : HandleCancel(v, j) /\ UNCHANGED hist
    \/ \E j \in DOMAIN task :
          /\ Background(j) /\ UNCHANGED hist
          /\ task'[j].pc # "refresh"
          /\ \A v \in DOMAIN videos :
                videos'[v].LastError # Errorf("monitor frames", ReadDirError)
SpecPair == Init /\ [][NextPair]_vars

\* ------------------------------------------------- folders and scans -----
NewScan(root, recursive) ==
    [pc |-> "collect", root |-> root, recursive |-> recursive,
     videoPaths |-> <<>>, k |-> 0, id |-> 0, exists |-> FALSE]

\* POST /folders
HandleFoldersPost(path, recursive) ==
    /\ mu = "free"
    /\ LET out == handleFoldersPost(path, recursive)
       IN /\ folders' = out.folders
          /\ folderByPath' = out.folderByPath
          /\ scan' = IF out.status = "scanning"
                     THEN Put(scan, out.folder_id, NewScan(path, recursive))
                     ELSE scan
    /\ UNCHANGED <<config, cloud, videos, videoByPath, jobs, jobCancel, closed, mu, task,
                   extraction, disk>>

SetScan(folderID, t) == scan' = [scan EXCEPT ![folderID] = t]
SetFolderStatus(folderID, status) ==
    folders' = IF folderID \in DOMAIN folders
               THEN [folders EXCEPT ![folderID].Status = status]
               ELSE folders

\* scanFolderAndIndex: collectVideoPaths returns the list.
ScanCollect(folderID) ==
    /\ scan[folderID].pc = "collect"
    /\ SetScan(folderID, [scan[folderID] EXCEPT
            !.pc = "add", !.k = 1,
            !.videoPaths = collectVideoPaths(scan[folderID].root,
                                             scan[folderID].recursive)])
    /\ UNCHANGED <<config, cloud, videos, videoByPath, jobs, jobCancel, closed, mu, task,
                   extraction, disk, folders, folderByPath>>

\* Mutant: the error branch without its return: the folder is marked and the
\* loop runs over the paths collected before the failure.
ScanCollectFails_KeepsScanning(folderID) ==
    /\ scan[folderID].pc = "collect"
    /\ mu = "free"
    /\ SetFolderStatus(folderID, "error")
    /\ SetScan(folderID, [scan[folderID] EXCEPT
            !.pc = "add", !.k = 1,
            !.videoPaths = collectVideoPaths(scan[folderID].root, FALSE)])
    /\ UNCHANGED <<config, cloud, videos, videoByPath, jobs, jobCancel, closed, mu, task,
                   extraction, disk, folderByPath>>

\* collectVideoPaths returns an error (the listing of the root or of a
\* directory below it fails): the folder is marked and the scan returns.
ScanCollectFails(folderID) ==
    /\ scan[folderID].pc = "collect"
    /\ mu = "free"
    /\ SetFolderStatus(folderID, "error")
    /\ SetScan(folderID, [scan[folderID] EXCEPT !.pc = "returned"])
    /\ UNCHANGED <<config, cloud, videos, videoByPath, jobs, jobCancel, closed, mu, task,
                   extraction, disk, folderByPath>>

\* Mutant: the scan loop without the test of exists before startJob.
ScanAddVideoPath_AlwaysStarts(folderID) ==
    /\ scan[folderID].pc = "add"
    /\ scan[folderID].k <= Len(scan[folderID].videoPaths)
    /\ mu = "free"
    /\ LET out == addVideoPath(scan[folderID].videoPaths[scan[folderID].k])
       IN /\ videos' = out.videos
          /\ videoByPath' = out.videoByPath
          /\ SetScan(folderID, [scan[folderID] EXCEPT
                  !.id = out.id, !.exists = out.exists, !.pc = "start"])
    /\ UNCHANGED <<config, cloud, jobs, jobCancel, closed, mu, task, extraction, disk,
                   folders, folderByPath>>

\* id, exists, err := s.addVideoPath(vp)
ScanAddVideoPath(folderID) ==
    /\ scan[folderID].pc = "add"
    /\ scan[folderID].k <= Len(scan[folderID].videoPaths)
    /\ mu = "free"
    /\ LET out == addVideoPath(scan[folderID].videoPaths[scan[folderID].k])
       IN /\ videos' = out.videos
          /\ videoByPath' = out.videoByPath
          /\ SetScan(folderID, [scan[folderID] EXCEPT
                  !.id = out.id, !.exists = out.exists,
                  !.pc = IF out.exists THEN "add" ELSE "start",
                  !.k = IF out.exists THEN @ + 1 ELSE @])
    /\ UNCHANGED <<config, cloud, jobs, jobCancel, closed, mu, task, extraction, disk,
                   folders, folderByPath>>

\* if !exists { s.startJob(id, false) }
ScanStartJob(folderID) ==
    /\ scan[folderID].pc = "start"
    /\ mu = "free"
    /\ StartJob(scan[folderID].id, FALSE)
    /\ SetScan(folderID, [scan[folderID] EXCEPT !.pc = "add", !.k = @ + 1])
    /\ UNCHANGED <<config, cloud, videoByPath, closed, mu, disk, folders, folderByPath>>

\* Mutant: the end of a scan that marks every folder scanned.
ScanDone_AllFolders(folderID) ==
    /\ scan[folderID].pc = "add"
    /\ scan[folderID].k > Len(scan[folderID].videoPaths)
    /\ mu = "free"
    /\ folders' = [f \in DOMAIN folders |-> [folders[f] EXCEPT !.Status = "scanned"]]
    /\ SetScan(folderID, [scan[folderID] EXCEPT !.pc = "returned"])
    /\ UNCHANGED <<config, cloud, videos, videoByPath, jobs, jobCancel, closed, mu, task,
                   extraction, disk, folderByPath>>

\* The loop is over: the folder is marked scanned.
ScanDone(folderID) ==
    /\ scan[folderID].pc = "add"
    /\ scan[folderID].k > Len(scan[folderID].videoPaths)
    /\ mu = "free"
    /\ SetFolderStatus(folderID, "scanned")
    /\ SetScan(folderID, [scan[folderID] EXCEPT !.pc = "returned"])
    /\ UNCHANGED <<config, cloud, videos, videoByPath, jobs, jobCancel, closed, mu, task,
                   extraction, disk, folderByPath>>

\* The history of the registration calls: what each one answered, and which
\* scan made it (by = 0: POST /videos).
NoteRegistered(path, id, existed, via, by) ==
    /\ registered' = registered \cup
           {[path |-> path, id |-> id, existed |-> existed, via |-> via, by |-> by]}
    /\ UNCHANGED <<cancelReturned, cancelledEarly, extractFailed, started>>

\* The history of the startJob calls of the scans: the scan, the video id and
\* the reindex flag passed, the error and the job returned.
NoteStarted(folderID, videoID, reindex) ==
    /\ started' = started \cup
           {[by |-> folderID, video |-> videoID, reindex |-> reindex,
             err |-> startJob(videoID, reindex).err,
             job |-> startJob(videoID, reindex).job]}
    /\ UNCHANGED <<cancelReturned, cancelledEarly, extractFailed, registered>>

\* The registry and the folder scanner: POST /videos, POST /folders and the
\* scan goroutines, up to the point where each started job is handed to its
\* own goroutine.
NextScan ==
    \/ \E p \in AllPaths :
          /\ HandleVideosPost(p)
          /\ NoteRegistered(p, handleVideosPost(p).video_id,
                            handleVideosPost(p).status = "already_exists", "videos", 0)
    \/ \E p \in FolderPaths, r \in BOOLEAN : HandleFoldersPost(p, r) /\ UNCHANGED hist
    \/ \E f \in DOMAIN scan : ScanCollect(f) /\ UNCHANGED hist
    \/ \E f \in DOMAIN scan : ScanCollectFails(f) /\ UNCHANGED hist
    \/ \E f \in DOMAIN scan :
          /\ ScanAddVideoPath(f)
          /\ LET vp == scan[f].videoPaths[scan[f].k]
             IN NoteRegistered(vp, addVideoPath(vp).id, addVideoPath(vp).exists,
                               "folders", f)
    \/ \E f \in DOMAIN scan : ScanStartJob(f) /\ NoteStarted(f, scan[f].id, FALSE)
    \/ \E f \in DOMAIN scan : ScanDone(f) /\ UNCHANGED hist
SpecScan == Init /\ [][NextScan]_vars

\* ---------------------------------------------- configuration and cloud --
\* The frame rates a PUT /config request can carry.  The field is a pointer:
\* <<>> is a request without frame_rate and <<r>> one with rate r.  The other
\* settings of the request reach no job and are left out.
Rates == {1, 2}
\* The access tokens a POST /cloud/auth request can carry.
Tokens == {"", " ", "tok"}
\* strings.TrimSpace on the tokens above.
TrimSpace(str) == IF str = " " THEN "" ELSE str

\* PUT /config: a field present in the request is stored.
handleConfigPut(req) ==
    [config EXCEPT !.FrameRate = IF req.FrameRate # <<>> THEN req.FrameRate[1] ELSE @]

HandleConfigPut(req) ==
    /\ mu = "free"
    /\ config' = handleConfigPut(req)
    /\ UNCHANGED <<cloud, videos, videoByPath, jobs, jobCancel, closed, mu, task,
                   extraction, disk, scanVars>>

\* Mutant: handleCloudAuth that stores the token and leaves the status as it
\* is.
handleCloudAuth_TokenOnly(req) ==
    IF TrimSpace(req.AccessToken) = ""
    THEN [code |-> 400, cloud |-> cloud, config |-> config]
    ELSE [code |-> 200,
          cloud |-> [cloud EXCEPT !.AccessToken = req.AccessToken],
          config |-> [config EXCEPT !.CloudAuthStatus = "ok"]]

\* POST /cloud/auth: a blank token is refused with 400 before the lock is
\* taken; any other token is stored and the status is set connected.
handleCloudAuth(req) ==
    IF TrimSpace(req.AccessToken) = ""
    THEN [code |-> 400, cloud |-> cloud, config |-> config]
    ELSE [code |-> 200,
          cloud |-> [cloud EXCEPT !.AccessToken = req.AccessToken,
                                  !.Status.Connected = TRUE],
          config |-> [config EXCEPT !.CloudAuthStatus = "ok"]]

HandleCloudAuth(req) ==
    /\ TrimSpace(req.AccessToken) # "" => mu = "free"
    /\ LET out == handleCloudAuth(req)
       IN cloud' = out.cloud /\ config' = out.config
    /\ UNCHANGED <<videos, videoByPath, jobs, jobCancel, closed, mu, task,
                   extraction, disk, scanVars>>

\* One job for each video, with PUT /config and POST /cloud/auth requests
\* arriving at any time.
NextConfig ==
    \/ \E p \in Paths : HandleVideosPost(p) /\ UNCHANGED hist
    \/ \E v \in VideoIDs, r \in BOOLEAN :
          /\ \A k \in DOMAIN jobs : jobs[k].VideoID # v
          /\ HandleExtract(v, r) /\ UNCHANGED hist
    \/ \E v \in VideoIDs, j \in {0} \cup DOMAIN jobs : HandleCancel(v, j) /\ UNCHANGED hist
    \/ \E j \in DOMAIN task : Background(j) /\ UNCHANGED hist
    \/ \E r \in {<<>>} \cup {<<x>> : x \in Rates} :
          HandleConfigPut([FrameRate |-> r]) /\ UNCHANGED hist
    \/ \E t \in Tokens : HandleCloudAuth([AccessToken |-> t]) /\ UNCHANGED hist
SpecConfig == Init /\ [][NextConfig]_vars

\* ------------------------------------------------------------ claims -----
\* C1: for every asset, at most one job whose status is queued or running
\* exists, also when startJob is called for an asset that has an active job.
C1_AtMostOneActiveJob ==
    \A v \in DOMAIN videos : Cardinality(ActiveJobsOf(v)) <= 1

\* C2: once a job's status is done or failed it never changes again.
C2_TerminalStatusIsFinal ==
    [][\A j \in DOMAIN jobs :
          jobs[j].Status \in {"done", "failed"} => jobs'[j].Status = jobs[j].Status]_vars

\* C3: every job with status queued or running has an un-signalled cancellation
\* channel in s.jobCancel, so cancelJob never closes a nil or a closed channel.
C3_CancelSignalsOnce ==
    /\ \A j \in DOMAIN jobs :
          IsActive(jobs[j]) => j \in DOMAIN jobCancel /\ jobCancel[j] \notin closed
    /\ mu # "dead"

\* C4: in the state right after cancelJob returned nil (the step that closes
\* the job's channel), the job is failed, the asset is failed with last-error
\* "cancelled" and the job's channel is no longer in s.jobCancel.
C4_CancelIsSynchronous ==
    [][\A j \in DOMAIN jobs :
          (j \notin closed /\ j \in closed') =>
             /\ jobs'[j].Status = "failed"
             /\ videos'[jobs[j].VideoID].IndexStatus = "failed"
             /\ videos'[jobs[j].VideoID].LastError = "cancelled"
             /\ j \notin DOMAIN jobCancel']_vars

\* C4 witness: a job cancelled while its goroutine is in the middle of an
\* upload already shows the cancelled state.
C4_Witness ==
    \E j \in DOMAIN jobs :
       /\ j \in closed /\ j \notin DOMAIN jobCancel
       /\ task[j].pc = "upload"
       /\ jobs[j].Status = "failed"
       /\ videos[jobs[j].VideoID].IndexStatus = "failed"
       /\ videos[jobs[j].VideoID].LastError = "cancelled"

\* C5: from the moment cancelJob returns until the next startJob for the
\* asset, the asset shows status failed with a non-nil last-error.
C5_CancelIsAuthoritative ==
    \A v \in cancelReturned :
       videos[v].IndexStatus = "failed" /\ videos[v].LastError # nil

\* C6: a job cancelled before its extraction call returned, the only job of
\* its asset, ends (extraction returned, goroutine returned, no file-system
\* fault) with job failed, asset failed and last-error "cancelled".
C6_EarlyCancelFinalState ==
    \A j \in cancelledEarly :
       (/\ task[j].pc = "returned"
        /\ extraction[j].st = "returned"
        /\ videos[jobs[j].VideoID].LastError \notin FsFaults
        /\ \A k \in DOMAIN jobs : jobs[k].VideoID = jobs[j].VideoID => k = j)
       => /\ jobs[j].Status = "failed"
          /\ videos[jobs[j].VideoID].IndexStatus = "failed"
          /\ videos[jobs[j].VideoID].LastError = "cancelled"

\* C7: cancelJob for an asset with no queued or running job (unknown id, no
\* jobs, or only done and failed jobs) returns errNotFound and changes no
\* video, job or channel entry.
C7_CancelNotFoundNoChange ==
    \A v \in VideoIDs :
       ActiveJobsOf(v) = {} =>
          \A j \in cancelCandidates(v) :
             cancelJob(v, j) = [err |-> errNotFound, videos |-> videos, jobs |-> jobs,
                                jobCancel |-> jobCancel, closed |-> closed, mu |-> "free"]

\* C7 witness: a registered asset whose jobs are all finished, one done and
\* one failed, while id 0 is unknown: each is a case of the claim.
C7_Witness ==
    \E v \in DOMAIN videos :
       /\ ActiveJobsOf(v) = {}
       /\ \E j \in DOMAIN jobs : jobs[j].VideoID = v /\ jobs[j].Status = "done"
       /\ \E j \in DOMAIN jobs : jobs[j].VideoID = v /\ jobs[j].Status = "failed"
       /\ 0 \notin DOMAIN videos
       /\ cancelJob(v, 0).err = errNotFound

\* C8 as stated: the progress of a job never decreases, the transitions to
\* failed included.
C8_ProgressNeverDecreases ==
    [][\A j \in DOMAIN jobs : ~Less(jobs'[j].Progress, jobs[j].Progress)]_vars

\* C8 amended: the progress of a job never decreases, except in a step that
\* leaves the job failed with progress 0 (failJob, markJobCancelled).
C8_ProgressDecreasesOnlyOnFailure ==
    [][\A j \in DOMAIN jobs :
          \/ ~Less(jobs'[j].Progress, jobs[j].Progress)
          \/ jobs'[j].Status = "failed" /\ jobs'[j].Progress = Zero]_vars

\* C8 witness: a job that uploaded a frame and then failed: its progress is
\* back at 0.
C8_Witness ==
    \E j \in DOMAIN jobs :
       /\ task[j].i >= 1
       /\ task[j].pc = "returned"
       /\ jobs[j].Status = "failed"
       /\ jobs[j].Progress = Zero

\* C9: a job's progress is exactly 1 if and only if its status is done; in
\* every other status 0 <= progress < 1.
C9_ProgressOneIffDone ==
    \A j \in DOMAIN jobs :
       /\ jobs[j].Progress = One <=> jobs[j].Status = "done"
       /\ jobs[j].Status # "done" =>
             ~Less(jobs[j].Progress, Zero) /\ Less(jobs[j].Progress, One)

\* C9 witness: every frame is uploaded, frames-uploaded equals
\* total-frames-expected, and the job is still running, before completeJob.
C9_Witness ==
    \E j \in DOMAIN jobs :
       /\ task[j].pc = "complete"
       /\ jobs[j].Status = "running"
       /\ videos[jobs[j].VideoID].FramesUploaded = videos[jobs[j].VideoID].TotalFramesExpected
       /\ jobs[j].Progress = Nextafter10

\* C10: registration is idempotent by path.  Registering a tracked path, by
\* POST /videos or by the scanner's addVideoPath, answers the existing id with
\* the already-existed indication and changes neither map; registering an
\* untracked path creates one asset in status pending; all the answers ever
\* given for one path carry the same id, the id videoByPath holds, and at most
\* one of them reports a creation.
C10_RegistrationIdempotent ==
    /\ \A p \in DOMAIN videoByPath :
          /\ handleVideosPost(p).video_id = videoByPath[p]
          /\ handleVideosPost(p).status = "already_exists"
          /\ handleVideosPost(p).videos = videos
          /\ handleVideosPost(p).videoByPath = videoByPath
          /\ addVideoPath(p).id = videoByPath[p]
          /\ addVideoPath(p).exists
          /\ addVideoPath(p).videos = videos
          /\ addVideoPath(p).videoByPath = videoByPath
    /\ \A p \in AllPaths \ DOMAIN videoByPath :
          /\ handleVideosPost(p).status = "scheduled"
          /\ handleVideosPost(p).videos[handleVideosPost(p).video_id].IndexStatus = "pending"
          /\ DOMAIN handleVideosPost(p).videos = DOMAIN videos \cup {handleVideosPost(p).video_id}
          /\ ~addVideoPath(p).exists
          /\ addVideoPath(p).videos[addVideoPath(p).id].IndexStatus = "pending"
          /\ DOMAIN addVideoPath(p).videos = DOMAIN videos \cup {addVideoPath(p).id}
    /\ \A r \in registered :
          r.path \in DOMAIN videoByPath /\ videoByPath[r.path] = r.id
    /\ \A p \in AllPaths :
          Cardinality({r \in registered : r.path = p /\ ~r.existed}) <= 1
    /\ \A v \in DOMAIN videos :
          Cardinality({r \in registered : r.id = v /\ ~r.existed}) = 1

\* Both routes have answered for one path: one created the asset, the other
\* found it.
C10_Witness ==
    \E r1, r2 \in registered :
       /\ r1.path = r2.path
       /\ r1.via = "videos" /\ r2.via = "folders"
       /\ r1.existed # r2.existed

\* C11: a job that was never cancelled, whose extraction succeeded and whose
\* N >= 1 uploads all succeeded, is left by completeJob as: job done with
\* progress 1, asset indexed, frames-uploaded = N, last-indexed-at set,
\* last-error nil.
C11_SuccessFinalState ==
    [][\A j \in DOMAIN task :
          (task[j].pc = "complete" /\ task'[j].pc = "defer" /\ j \notin closed) =>
             LET v == jobs[j].VideoID
             IN /\ jobs'[j].Status = "done"
                /\ jobs'[j].Progress = One
                /\ videos'[v].IndexStatus = "indexed"
                /\ videos'[v].FramesUploaded = Len(task[j].framePaths)
                /\ videos'[v].LastIndexedAt # nil
                /\ videos'[v].LastError = nil]_vars

\* C12: when the upload of frame k fails (the goroutine has uploaded k-1
\* frames and leaves the upload through failJob), the job is failed, the asset
\* is failed with a last-error, frames-uploaded is k-1; and a goroutine that
\* has left the loop never uploads again: frame k is not retried and no later
\* frame is tried.
C12_UploadFailureFinalState ==
    [][\A j \in DOMAIN task :
          /\ (task[j].pc = "upload" /\ task'[j].pc = "defer") =>
                LET v == jobs[j].VideoID
                IN /\ jobs'[j].Status = "failed"
                   /\ videos'[v].IndexStatus = "failed"
                   /\ videos'[v].LastError # nil
                   /\ videos'[v].FramesUploaded = task[j].i
                   /\ task'[j].i = task[j].i
          /\ task[j].pc \in {"defer", "returned"} =>
                task'[j].pc \in {"defer", "returned"} /\ task'[j].i = task[j].i]_vars

\* C13: a job whose extraction call returned an error and that was never
\* cancelled: the failJob that receives the error leaves job and asset failed
\* with the error's message (behind the prefix "extract frames: ") as
\* last-error; the job ends failed; its goroutine never enters indexFrames,
\* never sets the asset to indexing and never attempts an upload.
C13_ExtractionFailure ==
    [][\A j \in extractFailed :
          LET v == jobs[j].VideoID
          IN /\ task[j].pc \notin {"index", "loop", "upload", "complete"}
             /\ task[j].i = 0 /\ task[j].framePaths = <<>>
             /\ task'[j] # task[j] =>
                   \/ videos'[v].IndexStatus # "indexing"
                   \/ videos[v].IndexStatus = "indexing"
             /\ (j \notin closed' /\ extraction[j].errCh = ExtractError
                                  /\ extraction'[j].errCh = "empty") =>
                   /\ jobs'[j].Status = "failed"
                   /\ videos'[v].IndexStatus = "failed"
                   /\ videos'[v].LastError = "extract frames: " \o ExtractError
             /\ (j \notin closed /\ task[j].pc = "returned") =>
                   jobs[j].Status = "failed"]_vars

\* C13 witness: such a job after its goroutine returned.
C13_Witness ==
    \E j \in extractFailed :
       /\ j \notin closed
       /\ task[j].pc = "returned"
       /\ jobs[j].Status = "failed"
       /\ videos[jobs[j].VideoID].IndexStatus = "failed"
       /\ videos[jobs[j].VideoID].LastError = "extract frames: " \o ExtractError

\* C14: startJob on a known asset, for reindex true and false alike: the
\* asset's three counters are 0, its status is extracting, its last-error is
\* nil; exactly one job is added, queued, with progress 0 and an id no job
\* had; its channel is in s.jobCancel, is new and is not closed; every other
\* asset, every earlier job and every earlier channel entry is unchanged.
C14_StartJobPostcondition ==
    \A v \in DOMAIN videos :
       LET n == startJob(v, FALSE).job
           c == startJob(v, FALSE).jobCancel[n]
       IN /\ startJob(v, TRUE) = startJob(v, FALSE)
          /\ n \notin DOMAIN jobs
          /\ n \notin DOMAIN jobCancel
          /\ c \notin closed
          /\ \A k \in DOMAIN jobCancel : jobCancel[k] # c
          /\ startJob(v, FALSE) =
                [err |-> nil,
                 job |-> n,
                 videos |-> [w \in DOMAIN videos |->
                               IF w = v
                               THEN [videos[v] EXCEPT !.FramesExtracted = 0,
                                                      !.FramesUploaded = 0,
                                                      !.TotalFramesExpected = 0,
                                                      !.IndexStatus = "extracting",
                                                      !.LastError = nil]
                               ELSE videos[w]],
                 jobs |-> [k \in DOMAIN jobs \cup {n} |->
                             IF k = n
                             THEN [ID |-> n, VideoID |-> v,
                                   Type |-> "extract_and_upload",
                                   Status |-> "queued", Progress |-> Zero]
                             ELSE jobs[k]],
                 jobCancel |-> [k \in DOMAIN jobCancel \cup {n} |->
                                  IF k = n THEN c ELSE jobCancel[k]]]

\* C14 witness: startJob can run for an asset with non-zero counters and a
\* last-error, beside another asset, after an earlier job's channel has been
\* closed.
C14_Witness ==
    \E v, w \in DOMAIN videos :
       /\ v # w
       /\ videos[v].FramesUploaded > 0 /\ videos[v].LastError # nil
       /\ closed # {}
       /\ jobs # <<>>
       /\ Cardinality(DOMAIN jobs) < MaxJobs
       /\ mu = "free"

\* C15: startJob with an id that is not in s.videos returns errNotFound (404
\* from handleExtract) and leaves videos, jobs and channels as they are; and a
\* goroutine is launched only together with a new job of a known video.
C15_StartJobNotFound ==
    [][/\ \A v \in VideoIDs \ DOMAIN videos, r \in BOOLEAN :
             /\ startJob(v, r) = [err |-> errNotFound, job |-> 0, videos |-> videos,
                                  jobs |-> jobs, jobCancel |-> jobCancel]
             /\ handleExtract(v, r).code = 404
       /\ \A j \in DOMAIN task' \ DOMAIN task :
             /\ j \in DOMAIN jobs' \ DOMAIN jobs
             /\ jobs'[j].VideoID \in DOMAIN videos
             /\ j \in DOMAIN jobCancel' \ DOMAIN jobCancel]_vars

\* C15 witness: a registry with a video, jobs and a channel, where id 0 is
\* unknown.
C15_Witness ==
    /\ videos # <<>> /\ jobCancel # <<>>
    /\ Cardinality(DOMAIN jobs) < MaxJobs
    /\ \E j \in DOMAIN jobs : jobs[j].Status = "running"
    /\ mu = "free"
    /\ 0 \notin DOMAIN videos
    /\ startJob(0, TRUE).err = errNotFound

\* The video files directly in a directory, read off the tree.
DirectVideos(dir) == {q \in AllPaths : q.dir = dir}

\* C16: a non-recursive scan whose listing succeeded ends with the folder
\* scanned; it has called addVideoPath for exactly the video files directly in
\* the directory (not for other files, not for files of sub-directories);
\* each of them is tracked under an id of its own; and when nobody else
\* registered any of them, the scan created exactly one asset per file.
C16_NonRecursiveScan ==
    \A f \in DOMAIN scan :
       (~scan[f].recursive /\ scan[f].pc = "returned" /\ folders[f].Status # "error") =>
          LET direct == DirectVideos(scan[f].root)
              mine == {r \in registered : r.by = f}
          IN /\ folders[f].Status = "scanned"
             /\ {r.path : r \in mine} = direct
             /\ \A q \in direct :
                   q \in DOMAIN videoByPath /\ videos[videoByPath[q]].Path = q
             /\ \A q1, q2 \in direct : q1 # q2 => videoByPath[q1] # videoByPath[q2]
             /\ (\A r \in registered : r.path \in direct => r.by = f) =>
                   /\ Cardinality({r \in mine : ~r.existed}) = Cardinality(direct)
                   /\ Cardinality({r.id : r \in mine}) = Cardinality(direct)

\* C16 witness: the scan of /media (two video files, one of them b.MOV, a text
\* file and a sub-directory) has ended, it alone registered its files, and the
\* video of the sub-directory is not tracked.
C16_Witness ==
    \E f \in DOMAIN scan :
       /\ scan[f].root = Media /\ ~scan[f].recursive
       /\ scan[f].pc = "returned" /\ folders[f].Status = "scanned"
       /\ Cardinality({r \in registered : r.by = f /\ ~r.existed}) = 2
       /\ Cardinality(DOMAIN videos) = 2
       /\ VideoFiles[2] \notin DOMAIN videoByPath

\* C17: every startJob call of a scan passes reindex = false, succeeds and is
\* for an asset this scan registered as new; for each asset the scan
\* registered as new there is exactly one such call once the scan has passed
\* it (none yet while the scan stands between addVideoPath and startJob); for
\* a path the scan found tracked there is none.
C17_ScanStartsOneJobPerNewAsset ==
    \A f \in DOMAIN scan :
       LET mine == {r \in registered : r.by = f}
           calls == {t \in started : t.by = f}
       IN /\ \A t \in calls :
                /\ ~t.reindex /\ t.err = nil
                /\ \E r \in mine : r.id = t.video /\ ~r.existed
                /\ t.job \in DOMAIN jobs /\ jobs[t.job].VideoID = t.video
                /\ t.job \in DOMAIN task
          /\ \A r \in mine :
                LET n == Cardinality({t \in calls : t.video = r.id})
                IN IF r.existed THEN n = 0
                   ELSE IF scan[f].pc = "start" /\ scan[f].id = r.id THEN n = 0
                   ELSE n = 1

\* C17 witness: a finished scan that found one of its files tracked and
\* registered another, and started one job.
C17_Witness ==
    \E f \in DOMAIN scan :
       /\ scan[f].pc = "returned" /\ folders[f].Status = "scanned"
       /\ \E r \in registered : r.by = f /\ r.existed
       /\ \E r \in registered : r.by = f /\ ~r.existed
       /\ Cardinality({t \in started : t.by = f}) = 1

\* C18: the step in which a scan's enumeration fails marks the folder error
\* and changes no video, path or job; from then on the folder stays error
\* (never scanned), its scan has returned and makes no registration and no
\* startJob call; and no step ever removes a video or a path from the
\* registry.
C18_ScanFailure ==
    [][/\ \A f \in DOMAIN folders :
             /\ (folders[f].Status # "error" /\ folders'[f].Status = "error") =>
                   /\ videos' = videos /\ videoByPath' = videoByPath /\ jobs' = jobs
                   /\ scan'[f].pc = "returned"
             /\ folders[f].Status = "error" =>
                   /\ folders'[f].Status = "error"
                   /\ scan[f].pc = "returned" /\ scan'[f] = scan[f]
                   /\ {r \in registered' : r.by = f} = {r \in registered : r.by = f}
                   /\ {t \in started' : t.by = f} = {t \in started : t.by = f}
       /\ \A v \in DOMAIN videos :
             v \in DOMAIN videos' /\ videos'[v].Path = videos[v].Path
       /\ \A q \in DOMAIN videoByPath :
             q \in DOMAIN videoByPath' /\ videoByPath'[q] = videoByPath[q]]_vars

\* C18 witness: a folder whose scan failed after another scan and POST /videos
\* had registered assets; those assets are in the registry and the failed scan
\* registered nothing.
C18_Witness ==
    \E f \in DOMAIN folders :
       /\ folders[f].Status = "error" /\ scan[f].pc = "returned"
       /\ \E r \in registered : r.by # f /\ r.by # 0 /\ r.id \in DOMAIN videos
       /\ \E r \in registered : r.by = 0 /\ ~r.existed /\ r.id \in DOMAIN videos
       /\ \A r \in registered : r.by # f

\* The frames directory job jobID's goroutines work in (runJob, line 239), and
\* whether one of them is between RemoveAll(framesDir) and its return: the
\* extraction goroutine writing frames, the ticker's count, or indexFrames.
FramesDirOf(jobID) == framesDirForVideo(videos[jobs[jobID].VideoID].Path)
UsesFramesDir(jobID) ==
    \/ extraction[jobID].st = "running"
    \/ task[jobID].pc \in {"select", "refresh", "index", "loop", "upload"}

\* C19: no two background tasks that are still extracting, counting or
\* uploading frames work in the same frames directory.
C19_FramesDirExclusive ==
    \A j, k \in DOMAIN task :
       (j # k /\ UsesFramesDir(j) /\ UsesFramesDir(k)) =>
          FramesDirOf(j) # FramesDirOf(k)

\* The fields of a Video that the job functions write.
AssetFields(video) ==
    <<video.IndexStatus, video.FramesExtracted, video.FramesUploaded,
      video.TotalFramesExpected, video.LastError>>

\* C20: once job j1 has been cancelled and a newer job j2 of the same asset is
\* the asset's active job, no step of j1's background task changes the
\* asset's index status, frames-extracted, frames-uploaded,
\* total-frames-expected or last-error.
C20_OnlyActiveJobChangesAsset ==
    [][\A j1, j2 \in DOMAIN task :
          (/\ j1 < j2 /\ jobs[j1].VideoID = jobs[j2].VideoID
           /\ j1 \in closed /\ ~IsActive(jobs[j1]) /\ IsActive(jobs[j2])
           /\ task'[j1] # task[j1])
          => AssetFields(videos'[jobs[j1].VideoID])
               = AssetFields(videos[jobs[j1].VideoID])]_vars

\* C21: a background task whose cancellation channel is already closed when it
\* sits at its select does not consume the extraction result: its step from
\* the select neither empties errCh nor leads on to indexFrames.
C21_CancelPreemptsExtractionResult ==
    [][\A j \in DOMAIN task :
          (j \in closed /\ task[j].pc = "select" /\ task'[j] # task[j]) =>
             /\ extraction'[j].errCh = extraction[j].errCh
             /\ task'[j].pc # "index"]_vars

\* C22: once a job's cancellation channel is closed its background task
\* begins no new UploadImage call (the one in flight is the only one left),
\* and a step of that task raises the asset's frames-uploaded by at most one,
\* and only when it ends the call in flight.
C22_AtMostOneUploadAfterCancel ==
    [][\A j \in DOMAIN task :
          (j \in closed /\ task'[j] # task[j]) =>
             /\ task'[j].pc # "upload"
             /\ videos'[jobs[j].VideoID].FramesUploaded
                  <= videos[jobs[j].VideoID].FramesUploaded
                       + (IF task[j].pc = "upload" THEN 1 ELSE 0)]_vars

\* C23: every background task that has not returned can take a step: in no
\* reachable state is a task left waiting for something that never comes.
\* (s.mu is never unlocked once a handler has panicked holding it, so a task
\* found waiting for it waits for ever and its job never becomes terminal.)
C23_TaskNeverBlocked ==
    \A j \in DOMAIN task : task[j].pc # "returned" => ENABLED Background(j)

\* A job is in its run: its background task has taken its first step and the
\* job has not reached a terminal status.
InRun(jobID) ==
    /\ IsActive(jobs[jobID])
    /\ task[jobID].pc \notin {"start", "defer", "returned"}

\* C24: while a job is in its run no step lowers its asset's
\* total-frames-expected or frames-extracted.
C24_CountersNeverDecreaseInRun ==
    [][\A j \in DOMAIN task :
          InRun(j) =>
             /\ videos'[jobs[j].VideoID].TotalFramesExpected
                  >= videos[jobs[j].VideoID].TotalFramesExpected
             /\ videos'[jobs[j].VideoID].FramesExtracted
                  >= videos[jobs[j].VideoID].FramesExtracted]_vars

\* C25: for every asset whose total-frames-expected is known (non-zero),
\* total-frames-expected >= max(frames-extracted, frames-uploaded) and
\* frames-uploaded <= frames-extracted.
C25_CounterBounds ==
    \A v \in DOMAIN videos :
       videos[v].TotalFramesExpected # 0 =>
          /\ videos[v].TotalFramesExpected >= videos[v].FramesExtracted
          /\ videos[v].TotalFramesExpected >= videos[v].FramesUploaded
          /\ videos[v].FramesUploaded <= videos[v].FramesExtracted

\* C25 witness: two jobs of one asset are interleaved, one of them cancelled,
\* both still running, and the asset has uploaded frames and more frames
\* extracted than uploaded.
C25_Witness ==
    \E v \in DOMAIN videos, j, k \in DOMAIN task :
       /\ j # k /\ jobs[j].VideoID = v /\ jobs[k].VideoID = v
       /\ j \in closed
       /\ task[j].pc \notin {"start", "returned"} /\ task[k].pc \notin {"start", "returned"}
       /\ videos[v].FramesUploaded > 0
       /\ videos[v].FramesExtracted > videos[v].FramesUploaded
       /\ videos[v].TotalFramesExpected # 0

\* The order of the index statuses within a job.
StatusRank(status) ==
    IF status = "pending" THEN 0
    ELSE IF status = "extracting" THEN 1
    ELSE IF status = "indexing" THEN 2
    ELSE 3

\* C26: a step of a job's background task never moves its asset's status
\* backwards in the order extracting, indexing, indexed or failed; and the
\* step by which it enters indexing leaves frames-uploaded 0 and
\* frames-extracted and total-frames-expected equal to the number of frame
\* files the task listed.
C26_StatusMovesForward ==
    [][\A j \in DOMAIN task :
          task'[j] # task[j] =>
             LET old == videos[jobs[j].VideoID]
                 new == videos'[jobs[j].VideoID]
             IN /\ StatusRank(new.IndexStatus) >= StatusRank(old.IndexStatus)
                /\ (new.IndexStatus = "indexing" /\ old.IndexStatus # "indexing") =>
                      /\ new.FramesUploaded = 0
                      /\ new.FramesExtracted = Len(task[j].framePaths)
                      /\ new.TotalFramesExpected = Len(task[j].framePaths)]_vars

\* C27: a job's uploads go through its frame files in ascending order, one
\* call at a time: the call that starts carries frame number i + 1 (i the
\* number of uploads of the job that succeeded), the file at that place of
\* the sorted list and timestamp (k-1)/FrameRate; it starts only when the
\* asset is not in the extracting phase; a call that succeeds for frame k
\* leaves frames-uploaded at k or more and i = k; a call that fails ends the
\* loop; and i never goes down.
C27_UploadsInOrder ==
    [][\A j \in DOMAIN task :
          LET v == jobs[j].VideoID
              n == Len(task[j].framePaths)
          IN /\ (task[j].pc # "upload" /\ task'[j].pc = "upload") =>
                   LET k == task'[j].req.FrameNumber
                   IN /\ k = task[j].i + 1 /\ k \in 1..n
                      /\ task'[j].req.FilePath = task[j].framePaths[k]
                      /\ \A m \in 1..(k - 1) :
                            task[j].framePaths[m] < task[j].framePaths[k]
                      /\ task'[j].req.Timestamp = Ratio(k - 1, FrameRate)
                      /\ videos[v].IndexStatus # "extracting"
             /\ (task[j].pc = "upload" /\ task'[j].pc # "upload") =>
                   \/ /\ task'[j].pc \in {"loop", "complete"}
                      /\ task'[j].i = task[j].req.FrameNumber
                      /\ videos'[v].FramesUploaded >= task[j].req.FrameNumber
                   \/ /\ task'[j].pc = "defer"
                      /\ task'[j].i = task[j].i
             /\ task'[j].i >= task[j].i]_vars

\* A step of job j's task that ends a call of updateProgressLocked.
ProgressUpdate(j) ==
    \/ task[j].pc = "refresh" /\ task'[j].pc = "select"
    \/ task[j].pc = "index" /\ task'[j].pc = "loop"
    \/ task[j].pc = "upload" /\ task'[j].pc \in {"loop", "complete"}

\* C28: after every progress update of a running job its progress is
\* frames_uploaded / max(total_frames_expected, 1) of its asset, or the
\* largest value below 1 when that ratio is 1 or more; a running job in its
\* extraction phase has progress 0; and after the k-th of N uploads, k < N,
\* its progress is k/N.
C28_ProgressFormula ==
    [][\A j \in DOMAIN task :
          jobs'[j].Status = "running" =>
             LET ProgressOf(video) ==
                    LET d == IF video.TotalFramesExpected > 1
                             THEN video.TotalFramesExpected ELSE 1
                        r == Ratio(video.FramesUploaded, d)
                    IN IF Less(r, One) THEN r ELSE Nextafter10
             IN
             /\ ProgressUpdate(j) =>
                   jobs'[j].Progress = ProgressOf(videos'[jobs[j].VideoID])
             /\ task'[j].pc \in {"prepare", "select", "refresh"} =>
                   jobs'[j].Progress = Zero
             /\ (task[j].pc = "upload" /\ task'[j].pc = "loop") =>
                   jobs'[j].Progress = Ratio(task'[j].i, Len(task[j].framePaths))]_vars

\* C29: an asset has a last-error exactly when its index status is failed.
C29_LastErrorIffFailed ==
    \A v \in DOMAIN videos :
       videos[v].LastError # nil <=> videos[v].IndexStatus = "failed"

\* C30: an asset's last-indexed-at is nil until a job of the asset is done,
\* and the only step that changes it is the completion of a running job of
\* the asset that was not cancelled: startJob, cancelJob, failJob and the
\* steps of a cancelled job leave it as it is.
C30_LastIndexedOnlyOnSuccess ==
    [][\A v \in DOMAIN videos :
          /\ videos[v].LastIndexedAt # nil =>
                \E j \in DOMAIN jobs : jobs[j].VideoID = v /\ jobs[j].Status = "done"
          /\ videos'[v].LastIndexedAt # videos[v].LastIndexedAt =>
                \E j \in DOMAIN task :
                   /\ jobs[j].VideoID = v
                   /\ task[j].pc = "complete" /\ task'[j].pc = "defer"
                   /\ jobs[j].Status = "running" /\ j \notin closed
                   /\ jobs'[j].Status = "done"]_vars

\* C31: the step by which a job's background task prepares its frames
\* directory and starts the extraction removes no frame file: the files that
\* were in the directory are still there when extraction begins.
C31_FramesDirNotCleared ==
    [][\A j \in DOMAIN task :
          (task[j].pc = "prepare" /\ task'[j].pc = "select") =>
             disk[FramesDirOf(j)] \subseteq disk'[FramesDirOf(j)]]_vars

\* The paths a scan has been through: those before its place in the list.
ScannedPaths(f) ==
    {scan[f].videoPaths[m] : m \in 1..(IF scan[f].pc = "returned"
                                       THEN Len(scan[f].videoPaths)
                                       ELSE scan[f].k - 1)}

\* C32: whatever scans and direct registrations have run, no path has two
\* assets, every path a scan has been through has exactly one, and over all
\* scans at most one job was started for an asset.
C32_OneAssetOneScanJobPerPath ==
    /\ \A q \in AllPaths : Cardinality({v \in DOMAIN videos : videos[v].Path = q}) <= 1
    /\ \A f \in DOMAIN scan : \A q \in ScannedPaths(f) :
          Cardinality({v \in DOMAIN videos : videos[v].Path = q}) = 1
    /\ \A v \in DOMAIN videos : Cardinality({t \in started : t.video = v}) <= 1

\* C32 witness: the recursive scan of /media and the scan of /media/sub have
\* both ended, each made registrations, one path was first registered by
\* POST /videos, and the file both scans list has its asset and its job.
C32_Witness ==
    \E f, g \in DOMAIN scan :
       /\ f # g
       /\ folders[f].Status = "scanned" /\ folders[g].Status = "scanned"
       /\ scan[f].root = Media /\ scan[f].recursive /\ scan[g].root = MediaSub
       /\ \E r \in registered : r.by = 0 /\ ~r.existed
       /\ \E r1, r2 \in registered :
             /\ r1.by = f /\ r2.by = g /\ r1.path = r2.path
             /\ r1.existed # r2.existed
             /\ \E t \in started : t.video = r1.id

\* C33: a folder appears with status scanning and a scan task at its start;
\* its status changes only from scanning to scanned or error, in the step in
\* which its own scan task returns; a folder whose scan task has returned is
\* scanned or error; and no folder is removed or changes its id, path or
\* recursive flag.
C33_FolderStatusChangesOnce ==
    [][/\ \A f \in DOMAIN folders' \ DOMAIN folders :
             /\ folders'[f].Status = "scanning" /\ folders'[f].ID = f
             /\ f \in DOMAIN scan' /\ scan'[f].pc = "collect"
       /\ \A f \in DOMAIN folders :
             /\ f \in DOMAIN folders'
             /\ folders'[f].ID = folders[f].ID
             /\ folders'[f].Path = folders[f].Path
             /\ folders'[f].Recursive = folders[f].Recursive
             /\ folders'[f].Status # folders[f].Status =>
                   /\ folders[f].Status = "scanning"
                   /\ folders'[f].Status \in {"scanned", "error"}
                   /\ scan[f].pc # "returned" /\ scan'[f].pc = "returned"
             /\ scan[f].pc = "returned" => folders[f].Status \in {"scanned", "error"}
             /\ scan[f].pc # "returned" => folders[f].Status = "scanning"]_vars

\* C33 witness: one folder has gone to scanned, its scan having registered a
\* path, and another folder has gone to error.
C33_Witness ==
    \E f, g \in DOMAIN folders :
       /\ folders[f].Status = "scanned" /\ scan[f].pc = "returned"
       /\ folders[g].Status = "error" /\ scan[g].pc = "returned"
       /\ \E r \in registered : r.by = f

\* C34: POST /folders for a path that is tracked answers with the id of the
\* existing folder and already_exists and leaves s.folders and s.folderByPath
\* as they are (so no status changes and no scan is launched); no path has
\* two folder records and every folder has the one scan task of its creation.
C34_FolderRegistrationIdempotent ==
    /\ \A q \in DOMAIN folderByPath, r \in BOOLEAN :
          handleFoldersPost(q, r) =
             [folder_id |-> folderByPath[q], status |-> "already_exists",
              folders |-> folders, folderByPath |-> folderByPath]
    /\ \A q \in FolderPaths :
          Cardinality({f \in DOMAIN folders : folders[f].Path = q}) <= 1
    /\ DOMAIN scan = DOMAIN folders
    /\ \A f \in DOMAIN folders : scan[f].root = folders[f].Path

\* C34 witness: both folder paths are tracked, one folder is scanned and the
\* other still scanning, so a repeated POST /folders meets either status.
C34_Witness ==
    \E f, g \in DOMAIN folders :
       /\ folders[f].Status = "scanned" /\ folders[g].Status = "scanning"
       /\ folders[f].Path \in DOMAIN folderByPath
       /\ folders[g].Path \in DOMAIN folderByPath
       /\ scan[g].pc = "add"

\* C35: every frame of a job is uploaded with the frame rate its extraction
\* was started with (the rate runJob copied into cfg), and its timestamp is
\* (frame number - 1) divided by that rate, whatever PUT /config stores while
\* the job runs.
C35_UploadsUseExtractionRate ==
    \A j \in DOMAIN task :
       task[j].pc = "upload" =>
          /\ task[j].req.FrameRate = task[j].cfg.FrameRate
          /\ task[j].req.Timestamp =
                Ratio(task[j].req.FrameNumber - 1, task[j].cfg.FrameRate)

\* C36: an asset becomes indexed only in the completeJob step of a job, and
\* that step leaves frames-uploaded = frames-extracted =
\* total-frames-expected >= 1; a job whose extraction returned nil and whose
\* directory lists no frame file goes to failJob, and a job is done only
\* with at least one listed frame.
C36_IndexedOnlyAfterUploads ==
    [][/\ \A v \in DOMAIN videos :
             (videos'[v].IndexStatus = "indexed" /\ videos[v].IndexStatus # "indexed") =>
                \E j \in DOMAIN task :
                   jobs[j].VideoID = v /\ task[j].pc = "complete" /\ task'[j].pc = "defer"
       /\ \A j \in DOMAIN task :
             (task[j].pc = "complete" /\ task'[j].pc = "defer") =>
                LET video == videos'[jobs[j].VideoID]
                IN /\ video.IndexStatus = "indexed"
                   /\ video.FramesUploaded >= 1
                   /\ video.FramesUploaded = video.FramesExtracted
                   /\ video.FramesUploaded = video.TotalFramesExpected
       /\ \A j \in DOMAIN task :
             /\ (task[j].pc = "select" /\ task'[j].pc \notin {"select", "refresh"}
                   /\ extraction[j].errCh = nil /\ extraction'[j].errCh = "empty"
                   /\ disk[FramesDirOf(j)] = {}) =>
                   task'[j].pc \in {"fail", "defer"} /\ jobs'[j].Status # "done"
             /\ jobs'[j].Status = "done" => Len(task'[j].framePaths) >= 1]_vars

\* C37: assets and jobs are never removed and keep their identity: in every
\* step the asset ids and the job ids only grow, an asset keeps its id and
\* path, a job keeps its id, owning asset id and type, and every job's
\* owning asset id is the id of a registered asset.
C37_NeverRemovedIdentityFixed ==
    [][/\ DOMAIN videos \subseteq DOMAIN videos'
       /\ DOMAIN jobs \subseteq DOMAIN jobs'
       /\ \A v \in DOMAIN videos :
             /\ videos[v].ID = v
             /\ videos'[v].ID = videos[v].ID
             /\ videos'[v].Path = videos[v].Path
       /\ \A j \in DOMAIN jobs :
             /\ jobs[j].ID = j
             /\ jobs'[j].ID = jobs[j].ID
             /\ jobs'[j].VideoID = jobs[j].VideoID
             /\ jobs'[j].Type = jobs[j].Type
       /\ \A j \in DOMAIN jobs' :
             jobs'[j].ID = j /\ jobs'[j].VideoID \in DOMAIN videos']_vars

\* Two jobs of a registered asset have run to their end, one done and one
\* cancelled, and both are still in the job table.
C37_Witness ==
    \E j1, j2 \in DOMAIN jobs :
       /\ j1 # j2
       /\ jobs[j1].VideoID \in DOMAIN videos
       /\ jobs[j1].VideoID = jobs[j2].VideoID
       /\ jobs[j1].Status = "done" /\ task[j1].pc = "returned"
       /\ j2 \in closed /\ task[j2].pc = "returned"

\* C38: the cancellation-handle index s.jobCancel has no stale entry: every
\* entry is for a job in the job table, and a job whose goroutine has
\* returned (after completion, failure or cancellation) has no entry.
C38_NoStaleCancelHandle ==
    /\ DOMAIN jobCancel \subseteq DOMAIN jobs
    /\ \A j \in DOMAIN task : task[j].pc = "returned" => j \notin DOMAIN jobCancel

\* One job has run to completion and its goroutine has returned, a second
\* one was cancelled and has returned too, and neither has a handle left.
C38_Witness ==
    \E j1, j2 \in DOMAIN task :
       /\ j1 # j2
       /\ task[j1].pc = "returned" /\ jobs[j1].Status = "done" /\ j1 \notin closed
       /\ task[j2].pc = "returned" /\ j2 \in closed
       /\ jobCancel = <<>>

\* C39: the path index and the asset table agree: s.videoByPath maps path p
\* to id i exactly when s.videos holds under i an asset with id i and path
\* p; so no two assets share a path and every asset is found by its path.
C39_PathIndexConsistent ==
    /\ \A p \in DOMAIN videoByPath :
          /\ videoByPath[p] \in DOMAIN videos
          /\ videos[videoByPath[p]].Path = p
    /\ \A v \in DOMAIN videos :
          /\ videos[v].ID = v
          /\ videos[v].Path \in DOMAIN videoByPath
          /\ videoByPath[videos[v].Path] = v
    /\ \A v, w \in DOMAIN videos : videos[v].Path = videos[w].Path => v = w

\* Assets were registered by POST /videos and by a folder scan, and each of
\* the two routes also met a path that was already registered.
C39_Witness ==
    /\ Cardinality(DOMAIN videos) >= 2
    /\ \E r1, r2 \in registered :
          /\ r1.by = 0 /\ ~r1.existed
          /\ r2.by # 0 /\ ~r2.existed
    /\ \E r1, r2 \in registered :
          /\ r1.by = 0 /\ r1.existed
          /\ r2.by # 0 /\ r2.existed

\* C40: the cloud status is connected exactly when a non-empty access token
\* is stored; POST /cloud/auth with a non-blank token stores it and sets
\* connected (a blank one changes nothing); and completeJob sets connected
\* to "a token is stored", pending batches to 0 and the last successful
\* upload to the time of the call.
C40_ConnectedIffToken ==
    /\ cloud.Status.Connected <=> cloud.AccessToken # ""
    /\ \A t \in Tokens :
          LET out == handleCloudAuth([AccessToken |-> t])
          IN IF out.code = 200
             THEN /\ out.cloud.AccessToken = t /\ t # ""
                  /\ out.cloud.Status.Connected
             ELSE out.cloud = cloud
    /\ \A j \in DOMAIN task :
          task[j].pc = "complete" =>
             LET out == completeJob(j)
             IN /\ out.cloud.AccessToken = cloud.AccessToken
                /\ out.cloud.Status.Connected = (cloud.AccessToken # "")
                /\ out.cloud.Status.PendingBatches = 0
                /\ out.cloud.Status.LastSuccessfulUpload # nil

\* A token has been stored and a job has completed: the status is connected
\* and the last successful upload is stamped.
C40_Witness ==
    /\ cloud.AccessToken = "tok"
    /\ cloud.Status.Connected
    /\ cloud.Status.PendingBatches = 0
    /\ cloud.Status.LastSuccessfulUpload # nil
    /\ \E j \in DOMAIN task : jobs[j].Status = "done" /\ task[j].pc = "returned"

====
